---- MODULE Spec2Model ----
(***************************************************************************)
(* State-machine model of the Bedrock-agent action dispatcher of           *)
(* sample-mlops-agent-for-bedrock.  The repository holds three revisions   *)
(* of the same Lambda entry point (lambda_function.py, mlops-agent.py,     *)
(* mlops-project.py); the variable impl says which revision is deployed.   *)
(***************************************************************************)
EXTENDS Integers, Sequences, FiniteSets, TLC

VARIABLES
    impl,       \* the revision that handles the invocation
    event,      \* the inbound Bedrock agent event
    pc,         \* position of the single thread of control
    params,     \* the ParameterMap built by the extractor
    caught,     \* TRUE when the extractor swallowed an internal exception
    handler,    \* the handlers invoked by the dispatcher, in call order
    response,   \* the HandlerResult the dispatcher holds
    ret,        \* what lambda_handler gave back to the invoking runtime
    exc,        \* text of the exception raised by the handler (or "none")
    calls,      \* external API calls issued, in call order
    elapsed,    \* elapsed_time of the project-creation polling loop
    checks,     \* number of describe_project status checks issued
    seen,       \* outcomes of the status checks made inside the polling loop
    final,      \* outcome of the status check made after the loop
    world,      \* the requested S3 bucket as the service holds it
    bucket,     \* the frame of the bucket provisioner (position, locals, result)
    s3calls,    \* S3 and STS calls issued for the bucket, in call order
    runs,       \* results of the provisioner invocations that have returned
    pipeline,   \* the deploy pipeline's action states as get_pipeline_state reports them
    approvals,  \* put_approval_result calls issued, in call order
    catalog,    \* the Service Catalog products as search_products lists them
    provisioning \* the product and artifact ids create_project was called with

\* the variables of the bucket provisioner
bucketVars == <<world, bucket, s3calls, runs>>

\* the variables of the staging approval
pipelineVars == <<pipeline, approvals>>

\* the variables of the template discovery
catalogVars == <<catalog, provisioning>>

vars == <<impl, event, pc, params, caught, handler, response, ret, exc, calls,
          elapsed, checks, seen, final, world, bucket, s3calls, runs, pipeline, approvals, catalog, provisioning>>

----------------------------------------------------------------------------
(* Bounds of the model *)

\* longest parameters / properties list drawn for an event
MaxLen == 2

----------------------------------------------------------------------------
(* Data *)

Impls == {"lambda_function", "mlops_agent", "mlops_project"}

\* parameter names and values drawn for the extractor
ExtractNames == {"project_name", "connection_arn"}
Values == {"v1", "v2"}

\* a Python dict with string keys: a function on a set of names
EmptyMap == [x \in {} |-> "v1"]

Put(m, k, v) == [x \in (DOMAIN m) \cup {k} |-> IF x = k THEN v ELSE m[x]]

\* dict.update
Update(m, q) ==
    [x \in (DOMAIN m) \cup (DOMAIN q) |-> IF x \in DOMAIN q THEN q[x] ELSE m[x]]

\* One element of a parameters / properties list.  isDict: the element is a
\* mapping; hasName / hasValue: it carries the 'name' / 'value' key.
Elements ==
    [isDict : {TRUE}, hasName : {TRUE}, hasValue : {TRUE},
     name : ExtractNames, value : Values]
    \cup [isDict : {TRUE}, hasName : {TRUE}, hasValue : {FALSE},
          name : {"project_name"}, value : {"v1"}]
    \cup [isDict : {FALSE}, hasName : {FALSE}, hasValue : {FALSE},
          name : {"project_name"}, value : {"v1"}]

WellFormed(e) == e.isDict /\ e.hasName /\ e.hasValue

ElementLists == UNION {[1..n -> Elements] : n \in 0..MaxLen}

\* The value object of one entry of a properties mapping, or of a direct
\* requestBody entry: a mapping holding 'value', or something else.
ValueObjs == [isDict : {TRUE}, hasValue : {TRUE}, value : Values]
             \cup [isDict : {TRUE, FALSE}, hasValue : {FALSE}, value : {"v1"}]

Maps(Range) == UNION {[D -> Range] : D \in SUBSET ExtractNames}

NoList == << >>

\* event['parameters']: absent, present but no list, or a list
ParameterSources ==
    {[shape |-> "absent", list |-> NoList], [shape |-> "notlist", list |-> NoList]}
    \cup [shape : {"list"}, list : ElementLists]

\* event['requestBody'], by the point at which its nesting stops:
\*   absent        the key is missing
\*   null          None
\*   string        a truthy value that is no mapping
\*   direct        a mapping without 'content' (entries name -> value object)
\*   content_null  'content' is None
\*   content_empty 'content' is a mapping without 'application/json'
\*   json_null     content['application/json'] is None
\*   json_empty    content['application/json'] is a mapping without 'properties'
\*   props_null    'properties' is None
\*   props_list    'properties' is a list of {name, value} elements
\*   props_map     'properties' is a mapping name -> value object
BodyShapesPlain ==
    {"absent", "null", "string", "content_null", "content_empty",
     "json_null", "json_empty", "props_null"}

BodySources ==
    [shape : BodyShapesPlain, list : {NoList}, map : {EmptyMap}]
    \cup [shape : {"props_list"}, list : ElementLists, map : {EmptyMap}]
    \cup [shape : {"props_map", "direct"}, list : {NoList}, map : Maps(ValueObjs)]

\* event['queryStringParameters']: absent, None, a truthy non-mapping, a mapping
QuerySources ==
    [shape : {"absent", "null", "string"}, map : {EmptyMap}]
    \cup [shape : {"map"}, map : Maps(Values)]

----------------------------------------------------------------------------
(* Parameter Extractor: extract_parameters_from_request_body *)

\* METHOD 1: the loop over event['parameters']; later elements overwrite earlier ones
RECURSIVE ScanParametersArray(_, _)
ScanParametersArray(items, m) ==
    IF items = << >> THEN m
    ELSE ScanParametersArray(Tail(items),
            IF WellFormed(Head(items))
            THEN Put(m, Head(items).name, Head(items).value)
            ELSE m)

\* METHOD 2 of lambda_function.py / mlops-agent.py: the loop over the properties
\* list; a name already in params is left alone
RECURSIVE ScanPropertiesList(_, _)
ScanPropertiesList(items, m) ==
    IF items = << >> THEN m
    ELSE ScanPropertiesList(Tail(items),
            IF WellFormed(Head(items)) /\ Head(items).name \notin DOMAIN m
            THEN Put(m, Head(items).name, Head(items).value)
            ELSE m)

\* mlops-project.py: the loop over properties.items(); params[key] is assigned
\* whether or not key is already there
ScanPropertiesMapping(props, m) ==
    [x \in (DOMAIN m) \cup {k \in DOMAIN props : props[k].isDict /\ props[k].hasValue}
        |-> IF x \in DOMAIN props /\ props[x].isDict /\ props[x].hasValue
            THEN props[x].value ELSE m[x]]

\* mlops-project.py: "Direct properties in requestBody": every entry is taken,
\* the unwrapped value of a {value: v} object or the entry as it is
ScanDirectBody(entries, m) ==
    [x \in (DOMAIN m) \cup (DOMAIN entries)
        |-> IF x \in DOMAIN entries THEN entries[x].value ELSE m[x]]

\* requestBody shapes on which METHOD 2 of lambda_function.py raises:
\* .get on a non-mapping, len() of None
BodyRaisesInTry(body) ==
    body.shape \in {"string", "content_null", "json_null", "props_null"}

\* requestBody shapes on which mlops-project.py raises: 'in' on None, .items()
\* on None or on a list
BodyRaisesUnguarded(body) ==
    body.shape \in {"content_null", "json_null", "props_null", "props_list"}

\* The result of an extraction: the map, whether an internal exception was
\* swallowed (caught), and whether one left the function (raised).
Extracted(m, c, r) == [params |-> m, caught |-> c, raised |-> r]

\* lambda_function.py and mlops-agent.py (the same text): everything runs
\* inside one try block, params is filled in place
ExtractGuarded(ev) ==
    LET p1 == IF ev.parameters.shape = "list"
              THEN ScanParametersArray(ev.parameters.list, EmptyMap)
              ELSE EmptyMap
        p2 == IF ev.requestBody.shape = "props_list"
              THEN ScanPropertiesList(ev.requestBody.list, p1)
              ELSE p1
        p3 == IF ev.queryStringParameters.shape = "map"
                 /\ DOMAIN ev.queryStringParameters.map # {}
              THEN Update(p2, ev.queryStringParameters.map)
              ELSE p2
    IN  IF BodyRaisesInTry(ev.requestBody) THEN Extracted(p1, TRUE, FALSE)
        ELSE IF ev.queryStringParameters.shape = "string" THEN Extracted(p2, TRUE, FALSE)
        ELSE Extracted(p3, FALSE, FALSE)

\* mlops-project.py: no try block, no query-string step
ExtractUnguarded(ev) ==
    LET p1 == IF ev.parameters.shape = "list"
              THEN ScanParametersArray(ev.parameters.list, EmptyMap)
              ELSE EmptyMap
        p2 == CASE ev.requestBody.shape = "props_map" ->
                      ScanPropertiesMapping(ev.requestBody.map, p1)
                [] ev.requestBody.shape = "direct" ->
                      ScanDirectBody(ev.requestBody.map, p1)
                [] OTHER -> p1
    IN  IF BodyRaisesUnguarded(ev.requestBody) THEN Extracted(p1, FALSE, TRUE)
        ELSE Extracted(p2, FALSE, FALSE)

extract_parameters_from_request_body(i, ev) ==
    IF i = "mlops_project" THEN ExtractUnguarded(ev) ELSE ExtractGuarded(ev)

----------------------------------------------------------------------------
(* Action Dispatcher: the dispatch table of lambda_handler *)

\* the if/elif chain of lambda_function.py and of mlops-agent.py
PathsMain ==
    <<"/configure-code-connection", "/create-mlops-project",
      "/manage-project-lifecycle", "/list-mlops-templates", "/build-cicd-pipeline",
      "/manage-model-approval", "/manage-staging-approval",
      "/create-feature-store-group", "/create-mlflow-server", "/create-model-group">>

\* the if/elif chain of mlops-project.py
PathsProject ==
    <<"/create-code-connection", "/configure-code-connection",
      "/create-mlops-project", "/build-cicd-pipeline", "/manage-model-approval",
      "/manage-staging-approval", "/list-mlops-templates",
      "/create-feature-store-group", "/create-mlflow-tracking-server",
      "/manage-project-lifecycle">>

Range(f) == {f[x] : x \in DOMAIN f}

\* the paths the dispatcher of revision i routes to a handler call
RoutedPaths(i) == IF i = "mlops_project" THEN Range(PathsProject) ELSE Range(PathsMain)

\* the handler named in the branch taken for a routed path
HandlerFor(i, path) ==
    CASE path \in {"/configure-code-connection", "/create-code-connection"} ->
            IF i = "mlops_agent" THEN "configure_code_connection"
            ELSE "create_code_connection"
      [] path = "/create-mlops-project" -> "create_mlops_project"
      [] path = "/manage-project-lifecycle" -> "manage_project_lifecycle"
      [] path = "/list-mlops-templates" -> "list_mlops_templates"
      [] path = "/build-cicd-pipeline" -> "build_cicd_pipeline"
      [] path = "/manage-model-approval" -> "manage_model_approval"
      [] path = "/manage-staging-approval" -> "manage_staging_approval"
      [] path = "/create-feature-store-group" -> "create_feature_store_group"
      [] path = "/create-mlflow-server" -> "create_mlflow_server"
      [] path = "/create-mlflow-tracking-server" -> "create_mlflow_tracking_server"
      [] path = "/create-model-group" -> "create_model_group"
      [] OTHER -> "none"

\* the functions each revision defines at module level
DefinedHandlers(i) ==
    CASE i = "lambda_function" ->
            {"create_code_connection", "create_mlops_project", "manage_project_lifecycle",
             "list_mlops_templates", "build_cicd_pipeline", "manage_model_approval",
             "manage_staging_approval", "create_feature_store_group",
             "create_mlflow_server", "create_model_group"}
      [] i = "mlops_agent" ->
            {"configure_code_connection", "create_mlops_project", "manage_project_lifecycle",
             "list_mlops_templates", "build_cicd_pipeline", "manage_model_approval",
             "manage_staging_approval", "create_feature_store_group",
             "create_mlflow_server", "create_model_group"}
      [] OTHER ->
            {"create_code_connection", "create_mlops_project",
             "create_mlflow_tracking_server", "list_mlops_templates"}

\* the paths named in the text of the "Unknown API path" message
ListedPaths(i) == IF i = "mlops_project" THEN {} ELSE Range(PathsMain)

----------------------------------------------------------------------------
(* Handler results and the response envelope *)

\* A response body: text or object, the message it carries (msg), the piece
\* of text interpolated into it (detail: an exception text, a status, or
\* "none") and the names it lists (items: paths, missing parameters, ...).
Body(kind, msg, detail, items) ==
    [kind |-> kind, msg |-> msg, detail |-> detail, items |-> items]

\* {'statusCode': status, 'body': body}
Result(status, body) ==
    [shape |-> "result", hasStatus |-> TRUE, statusCode |-> status, body |-> body]

NoResponse == [shape |-> "none"]

\* json.dumps: the JSON text of a value, not the value
JsonDumps(v) == [json |-> v]

\* response.get('statusCode', 200)
StatusOf(r) == IF r.hasStatus THEN r.statusCode ELSE 200

\* the dict built by the return statement of lambda_handler
Envelope(ag, path, method, r) ==
    [shape |-> "envelope",
     messageVersion |-> "1.0",
     response |->
        [actionGroup |-> ag, apiPath |-> path, httpMethod |-> method,
         httpStatusCode |-> StatusOf(r),
         responseBody |-> [application_json |-> [body |-> JsonDumps(r.body)]]]]

\* the else branch of the dispatch chain
UnknownPathResult(i, path) ==
    Result(400, Body("text", "Unknown API path", path, ListedPaths(i)))

\* the except branch of the dispatch chain: the exception text goes into the body
DispatcherErrorResult(i, text) ==
    Result(500, Body("text",
                     IF i = "mlops_project" THEN "Internal server error" ELSE "Error",
                     text, {}))

----------------------------------------------------------------------------
(* Bucket provisioner: data *)

\* most invocations of the provisioner followed for one bucket
MaxRuns == 2

\* A bucket name is the sequence of its dash-free segments: "mlops-111" is
\* <<"mlops", "111">>, and an f-string joining names with "-" is \o.
BucketNames ==
    {<<"data">>, <<"mlops", "111">>, <<"sagemaker", "mlflow">>}

\* sts get_caller_identity()['Account'] and int(time.time()), as segments
Accounts == {"111", "222"}
Timestamps == {"111", "999"}

\* The artifact store URIs drawn, parsed: the text starts with 's3://' or not,
\* the bucket name before the first '/', and whether a prefix follows it.
UriTable ==
    [uri \in {"s3://data/mlflow", "s3://mlops-111/mlflow", "s3://sagemaker-mlflow",
              "data/mlflow", "s3://"} |->
        CASE uri = "s3://data/mlflow" ->
                [hasScheme |-> TRUE, bucket |-> <<"data">>, hasPrefix |-> TRUE]
          [] uri = "s3://mlops-111/mlflow" ->
                [hasScheme |-> TRUE, bucket |-> <<"mlops", "111">>, hasPrefix |-> TRUE]
          [] uri = "s3://sagemaker-mlflow" ->
                [hasScheme |-> TRUE, bucket |-> <<"sagemaker", "mlflow">>,
                 hasPrefix |-> FALSE]
          [] uri = "data/mlflow" ->
                [hasScheme |-> FALSE, bucket |-> <<"data">>, hasPrefix |-> TRUE]
          [] OTHER ->
                [hasScheme |-> TRUE, bucket |-> << >>, hasPrefix |-> FALSE]]

\* mlops-project.py, create_mlflow_tracking_server: the default artifact store
DefaultUri(acct) ==
    [hasScheme |-> TRUE, bucket |-> <<"mlflow", "artifacts", acct>>, hasPrefix |-> TRUE]

ParseUri(text) == UriTable[text]

\* The bucket as S3 holds it: owned by nobody, by this account or by another
\* account; writable: put_object by this account is permitted.
Worlds == [owner : {"none", "own", "other"}, writable : BOOLEAN]

\* the third element of the tuple the provisioner returns: None, the bucket
\* name, or the dict with the suggested names
NoDetails == [type |-> "none"]
NameDetails(n) == [type |-> "name", name |-> n]
DictDetails(names) == [type |-> "dict", suggested_names |-> names]

\* (success, message, details): the message is kept as its fixed text (msg)
\* and the alternative names listed in it (alternatives)
ProvResult(ok, msg, msgNames, details) ==
    [ok |-> ok, msg |-> msg, alternatives |-> msgNames, details |-> details]

NoProvResult == [ok |-> FALSE, msg |-> "none", alternatives |-> << >>, details |-> NoDetails]

\* suggested_names of the conflict branches
SuggestedNames(i, name, acct, ts) ==
    IF i = "mlops_project"
    THEN <<name \o <<acct>>, name \o <<ts>>, name \o <<acct, ts>>>>
    ELSE <<name \o <<acct>>, name \o <<ts>>, <<"mlops", acct, ts>>,
           <<"sagemaker", "mlflow", acct>>>>

\* the provisioner is not running
IdleFrame ==
    [pc |-> "idle", uri |-> ParseUri("s3://"), created |-> FALSE, branch |-> "none",
     result |-> NoProvResult]

\* entry of the provisioner: the URI is parsed; a text mlops-project.py does
\* not accept, or an empty bucket name, ends the invocation at once
StartFrame(i, uri) ==
    CASE i = "mlops_project" /\ ~uri.hasScheme ->
            [pc |-> "done", uri |-> uri, created |-> FALSE, branch |-> "none",
             result |-> ProvResult(FALSE, "Invalid S3 URI format", << >>, NoDetails)]
      [] uri.bucket = << >> ->
            [pc |-> "done", uri |-> uri, created |-> FALSE, branch |-> "none",
             result |-> ProvResult(FALSE, "Invalid S3 URI - no bucket name found",
                                   << >>, NoDetails)]
      [] OTHER ->
            [pc |-> "head", uri |-> uri, created |-> FALSE, branch |-> "none",
             result |-> NoProvResult]

----------------------------------------------------------------------------
(* Events of the dispatcher runs *)

\* the parameter names the handlers read, in a fixed order
AllParams ==
    <<"project_name", "github_repo_build", "github_repo_deploy", "connection_arn",
      "github_username", "connection_name", "feature_group_name",
      "tracking_server_name", "artifact_store_uri", "model_package_group_name",
      "model_package_arn", "action", "model_build_code_repository_full_name",
      "code_connection_arn", "bucket_name", "mlflow_tracking_server_arn",
      "pipeline_name", "test_score_threshold">>

Pair(n, v) == [isDict |-> TRUE, hasName |-> TRUE, hasValue |-> TRUE,
               name |-> n, value |-> v]

\* The values a caller sends.  The handlers read every value as an opaque
\* string, so a value is a text; a well-formed one has the shape its field is
\* documented to have, a malformed one does not (an ARN without the account
\* segment, a name with uppercase letters and an underscore, a repository
\* identifier without a slash).
ArnParams == {"connection_arn", "code_connection_arn", "mlflow_tracking_server_arn",
              "model_package_arn"}
NameParams == {"project_name", "feature_group_name", "pipeline_name",
               "tracking_server_name", "connection_name"}
RepoParams == {"model_build_code_repository_full_name"}

WellFormedValue(n) ==
    CASE n = "action" -> "approve"
      [] n = "test_score_threshold" -> "abc"
      [] n = "artifact_store_uri" -> "s3://data/mlflow"
      [] n \in ArnParams -> "arn:aws:svc:us-west-2:111122223333:resource/x"
      [] n \in RepoParams -> "owner/name"
      [] OTHER -> "v1"

MalformedValue(n) ==
    CASE n \in ArnParams -> "arn:aws:svc:us-west-2::resource/x"
      [] n \in NameParams -> "My_Project"
      [] n \in RepoParams -> "repo-without-slash"
      [] OTHER -> WellFormedValue(n)

Qualities == {"wellformed", "malformed"}

\* the parameters array that carries the names of S with values of quality q;
\* test_score_threshold (when sent) is not a number
RECURSIVE ParamList(_, _, _)
ParamList(names, S, q) ==
    IF names = << >> THEN << >>
    ELSE LET n == Head(names)
             rest == ParamList(Tail(names), S, q)
         IN  IF n \in S
             THEN <<Pair(n, IF q = "malformed" THEN MalformedValue(n)
                            ELSE WellFormedValue(n))>> \o rest
             ELSE rest

Required == Range(AllParams) \ {"test_score_threshold"}

ParamScenarios ==
    {Required, Range(AllParams), Required \ {"connection_arn"},
     Required \ {"connection_arn", "project_name"},
     Required \ {"artifact_store_uri"}, Required \ {"model_package_arn"},
     Range(AllParams) \ {"pipeline_name"}, {}}

\* the parameter arrays of the dispatcher runs: every scenario with well-formed
\* values, and the complete one with malformed values
\* the values of the parameter action the handlers tell apart, and one they
\* do not know
Actions == {"approve", "reject", "describe", "delete", "hold"}

\* the array l with the value of action replaced by a
WithAction(l, a) ==
    [k \in DOMAIN l |-> IF l[k].name = "action" THEN Pair("action", a) ELSE l[k]]

ParamLists ==
    {ParamList(AllParams, S, "wellformed") : S \in ParamScenarios}
        \cup {ParamList(AllParams, Required, "malformed")}
        \cup {WithAction(ParamList(AllParams, Required, "wellformed"), a) : a \in Actions}

\* paths that differ from a routed path by a trailing slash or by case
NearMissPaths == {"/list-mlops-templates/", "/List-MLOps-Templates"}

EventPaths ==
    Range(PathsMain) \cup Range(PathsProject) \cup {"/does-not-exist"}
        \cup NearMissPaths

ActionGroups == {"MLOpsActions", "ProjectManagement"}
HttpMethods == {"POST", "GET"}

NoBody == [shape |-> "absent", list |-> NoList, map |-> EmptyMap]
NoQuery == [shape |-> "absent", map |-> EmptyMap]

DispatchEvents ==
    {[actionGroup |-> ag, apiPath |-> path, httpMethod |-> m,
      parameters |-> [shape |-> "list", list |-> l],
      requestBody |-> b, queryStringParameters |-> NoQuery] :
        ag \in ActionGroups, path \in EventPaths, m \in HttpMethods,
        l \in ParamLists,
        b \in {NoBody, [shape |-> "props_list", list |-> NoList, map |-> EmptyMap]}}

\* the events of the extractor runs: every combination of the three sources
ExtractEvents ==
    [actionGroup : {"MLOpsActions"}, apiPath : {"/list-mlops-templates"},
     httpMethod : {"POST"},
     parameters : ParameterSources, requestBody : BodySources,
     queryStringParameters : QuerySources]

----------------------------------------------------------------------------
(* Staging approval: the deploy pipeline as get_pipeline_state reports it *)

\* common_combinations: the stage/action names tried by name
GuessList ==
    <<<<"DeployStaging", "ApproveDeployment">>, <<"Staging", "ApproveDeployment">>,
      <<"Deploy", "ManualApproval">>, <<"Production", "ApproveProduction">>,
      <<"Prod", "ApproveDeployment">>>>

\* one entry of actionStates: the names, actionTypeId.category, and the status
\* and token of latestExecution ("" when the token is not there)
ActionState(stage, action, category, status, token) ==
    [stage |-> stage, action |-> action, category |-> category,
     status |-> status, token |-> token]

Categories == {"Approval", "Deploy"}
Statuses == {"InProgress", "Succeeded"}

\* the states of an action whose names are in the list
ListedStates ==
    {ActionState("DeployStaging", "ApproveDeployment", c, st, t) :
        c \in Categories, st \in Statuses, t \in {"", "tokA"}}

\* the states of an action whose names are not
UnlistedStates ==
    {ActionState("Review", "SignOff", c, st, t) :
        c \in Categories, st \in Statuses, t \in {"", "tokB"}}

NoPipeline == << >>

\* a pipeline of two stages with one action each, or one without stages
Pipelines == {<<a, b>> : a \in ListedStates, b \in UnlistedStates} \cup {NoPipeline}

----------------------------------------------------------------------------
(* Template discovery: the Service Catalog as the handler sees it *)

None == "None"

\* How a product's name compares with the template name: "exact" is the name
\* itself, "fuzzy" a name with 'mlops' and 'git' or 'codepipeline' in it,
\* "other" any other name.
NameKinds == {"exact", "fuzzy", "other"}

\* What list_provisioning_artifacts gives for a product: nothing, artifacts
\* that are all inactive, or artifacts the last active one of which is the
\* product's own
ArtifactKinds == {"none", "inactive", "active"}

ProductIds == <<"prod-1", "prod-2">>

\* the id of the last active artifact of a product
ArtifactOf(id) == IF id = "prod-1" THEN "pa-1" ELSE "pa-2"

\* the catalogs of n products, ids in listing order
CatalogsOf(n) ==
    {[k \in 1..n |-> [id |-> ProductIds[k], name |-> nm[k], artifacts |-> ar[k]]] :
        nm \in [1..n -> NameKinds], ar \in [1..n -> ArtifactKinds]}

Catalogs == CatalogsOf(0) \cup CatalogsOf(1) \cup CatalogsOf(2)

\* the catalog of an account with the template in place
DefaultCatalog == <<[id |-> "prod-1", name |-> "exact", artifacts |-> "active"]>>

NoProvisioning == [product |-> None, artifact |-> None, called |-> FALSE]

----------------------------------------------------------------------------
(* Initial states *)

NoReturn == [kind |-> "none"]

Fresh ==
    /\ pc = "start"
    /\ params = EmptyMap
    /\ caught = FALSE
    /\ handler = << >>
    /\ response = NoResponse
    /\ ret = NoReturn
    /\ exc = "none"
    /\ calls = << >>
    /\ elapsed = 0
    /\ checks = 0
    /\ seen = {}
    /\ final = "none"
    /\ bucket = IdleFrame
    /\ s3calls = << >>
    /\ runs = << >>
    /\ approvals = << >>
    /\ provisioning = NoProvisioning

\* the paths whose handler calls the bucket provisioner
ProvisionerPaths == {"/create-mlflow-server", "/create-mlflow-tracking-server"}

\* the bucket state when no handler looks at it
AnyWorld == [owner |-> "none", writable |-> TRUE]

\* the project-creation events for which the catalog is drawn: the complete
\* parameter array, the magnitudes the handler does not read held fixed
DiscoveryEvents ==
    {e \in DispatchEvents :
        /\ e.apiPath = "/create-mlops-project"
        /\ e.actionGroup = "MLOpsActions" /\ e.httpMethod = "POST"
        /\ e.requestBody = NoBody
        /\ e.parameters.list = ParamList(AllParams, Required, "wellformed")}

\* The state of the bucket, of the pipeline and of the catalog is drawn for
\* the events that reach the code that reads it.
Init ==
    /\ impl \in Impls
    /\ event \in DispatchEvents
    /\ world \in (IF event.apiPath \in ProvisionerPaths THEN Worlds ELSE {AnyWorld})
    /\ pipeline \in (IF event.apiPath = "/manage-staging-approval" THEN Pipelines
                     ELSE {NoPipeline})
    /\ catalog \in (IF event \in DiscoveryEvents THEN Catalogs ELSE {DefaultCatalog})
    /\ Fresh

InitExtract ==
    /\ impl \in Impls
    /\ event \in ExtractEvents
    /\ world = AnyWorld
    /\ pipeline = NoPipeline
    /\ catalog = DefaultCatalog
    /\ Fresh

----------------------------------------------------------------------------
(* lambda_handler, up to the dispatch chain *)

\* params = extract_parameters_from_request_body(event) returns
Extract ==
    /\ pc = "start"
    /\ LET x == extract_parameters_from_request_body(impl, event)
       IN  /\ ~x.raised
           /\ params' = x.params
           /\ caught' = x.caught
    /\ pc' = "route"
    /\ UNCHANGED <<catalogVars, pipelineVars, bucketVars, impl, event, handler, response, ret, exc, calls, elapsed,
                   checks, seen, final>>

\* the extractor raises: the call is outside the try block of lambda_handler,
\* so the exception leaves lambda_handler
ExtractEscapes ==
    /\ pc = "start"
    /\ extract_parameters_from_request_body(impl, event).raised
    /\ ret' = [kind |-> "raised", from |-> "extract_parameters_from_request_body"]
    /\ pc' = "done"
    /\ UNCHANGED <<catalogVars, pipelineVars, bucketVars, impl, event, params, caught, handler, response, exc, calls,
                   elapsed, checks, seen, final>>

SpecExtract == InitExtract /\ [][Extract \/ ExtractEscapes]_vars

----------------------------------------------------------------------------
(* The dispatch chain *)

\* no branch matches: the else branch builds the "Unknown API path" result
RouteUnknown ==
    /\ pc = "route"
    /\ event.apiPath \notin RoutedPaths(impl)
    /\ response' = UnknownPathResult(impl, event.apiPath)
    /\ pc' = "respond"
    /\ UNCHANGED <<catalogVars, pipelineVars, bucketVars, impl, event, params, caught, handler, ret, exc, calls, elapsed,
                   checks, seen, final>>

\* a branch matches and its handler is called with params
RouteHandler ==
    /\ pc = "route"
    /\ event.apiPath \in RoutedPaths(impl)
    /\ HandlerFor(impl, event.apiPath) \in DefinedHandlers(impl)
    /\ handler' = Append(handler, HandlerFor(impl, event.apiPath))
    /\ pc' = "call"
    /\ UNCHANGED <<catalogVars, pipelineVars, bucketVars, impl, event, params, caught, response, ret, exc, calls, elapsed,
                   checks, seen, final>>

\* a branch matches but names a function the module does not define:
\* NameError, raised inside the try block
RouteUndefined ==
    /\ pc = "route"
    /\ event.apiPath \in RoutedPaths(impl)
    /\ HandlerFor(impl, event.apiPath) \notin DefinedHandlers(impl)
    /\ exc' = "NameError"
    /\ pc' = "caught"
    /\ UNCHANGED <<catalogVars, pipelineVars, bucketVars, impl, event, params, caught, handler, response, ret, calls,
                   elapsed, checks, seen, final>>

Running(h) == pc = "call" /\ handler # << >> /\ handler[Len(handler)] = h

\* `not params.get(n)`: absent, None or empty
Absent(p, n) == n \notin DOMAIN p \/ p[n] = ""

\* the names of req (in order) that the handler finds missing
MissingOf(req, p) == SelectSeq(req, LAMBDA n : Absent(p, n))

\* the handler returns result r to the dispatch chain
Return(r) ==
    /\ response' = r
    /\ pc' = "respond"

\* the handler raises text t into the dispatch chain
Raise(t) ==
    /\ exc' = t
    /\ pc' = "caught"

\* texts of the exceptions the external calls raise
ExcTexts == {"AccessDenied", "already exists", "boom", "bang"}

----------------------------------------------------------------------------
(* create_mlops_project *)

max_wait_time_main == 600
max_wait_time_project == 300
wait_interval == 10

max_wait_time(i) ==
    IF i = "mlops_project" THEN max_wait_time_project ELSE max_wait_time_main

ProjectRequired(i) ==
    IF i = "mlops_project"
    THEN <<"project_name", "github_username", "github_repo_build",
           "github_repo_deploy", "connection_arn">>
    ELSE <<"project_name", "github_repo_build", "github_repo_deploy",
           "connection_arn", "github_username">>

\* the `if not all([...])` block
ProjectMissingParams ==
    /\ Running("create_mlops_project")
    /\ MissingOf(ProjectRequired(impl), params) # << >>
    /\ Return(Result(400, Body("text", "Missing required parameters", "none",
                               Range(MissingOf(ProjectRequired(impl), params)))))
    /\ UNCHANGED <<catalogVars, pipelineVars, bucketVars, impl, event, params, caught, handler, ret, exc, calls, elapsed,
                   checks, seen, final>>

\* The scan of ProductViewSummaries from entry k on: every product whose
\* name matches sets product_id; the first one with an active artifact sets
\* provisioning_artifact_id and ends the scan.
RECURSIVE Scan(_, _, _, _)
Scan(matches, cat, k, pid) ==
    IF k > Len(cat) THEN [product |-> pid, artifact |-> None]
    ELSE IF cat[k].name \in matches
         THEN IF cat[k].artifacts = "active"
              THEN [product |-> cat[k].id, artifact |-> ArtifactOf(cat[k].id)]
              ELSE Scan(matches, cat, k + 1, cat[k].id)
         ELSE Scan(matches, cat, k + 1, pid)

\* The ids template discovery resolves.
\*   lambda_function.py: the scan for the exact name, then, when it set no
\*     product, the fallback scan for names with the key terms;
\*   mlops-project.py: the scan for the exact name only;
\*   mlops-agent.py: two fixed ids, whatever the catalog holds.
Discover(i, cat) ==
    CASE i = "mlops_agent" ->
            [product |-> "prod-txwcxmr6k3xsc", artifact |-> "pa-zbe7bzqw3amuw"]
      [] i = "mlops_project" -> Scan({"exact"}, cat, 1, None)
      [] OTHER ->
            IF Scan({"exact"}, cat, 1, None).product # None
            THEN Scan({"exact"}, cat, 1, None)
            ELSE Scan({"exact", "fuzzy"}, cat, 1, None)

\* create_mlops_project up to and including the create_project call:
\* template discovery (a search that raises gives no ids), then the call,
\* accepted or refused with an exception text
ProjectCreate ==
    /\ Running("create_mlops_project")
    /\ MissingOf(ProjectRequired(impl), params) = << >>
    /\ UNCHANGED catalog
    /\ \E searched \in (IF impl = "mlops_agent" THEN {TRUE} ELSE BOOLEAN),
          c \in {"accepted"} \cup ExcTexts :
        LET discovery == IF impl # "mlops_agent" THEN <<"search_products">> ELSE << >>
            ids == IF searched THEN Discover(impl, catalog)
                   ELSE [product |-> None, artifact |-> None]
            call == [product |-> ids.product, artifact |-> ids.artifact,
                     called |-> TRUE]
        IN
        CASE impl # "mlops_project"
                /\ (ids.product = None \/ ids.artifact = None) ->
                \* find_mlops_service_catalog_product gave (None, None) or no artifact
                /\ calls' = calls \o <<"search_products">>
                /\ Return(Result(404, Body("object",
                            "MLOps Service Catalog product not found", "none", {})))
                /\ provisioning' = [call EXCEPT !.called = FALSE]
                /\ UNCHANGED elapsed
          [] impl = "mlops_project" /\ ids.product = None ->
                \* raise Exception(...) or a raising search: the outer except
                /\ calls' = calls \o <<"search_products">>
                /\ Return(Result(500, Body("text", "Failed to create MLOps project",
                                           "template not found", {})))
                /\ provisioning' = [call EXCEPT !.called = FALSE]
                /\ UNCHANGED elapsed
          [] impl = "mlops_project" /\ ids.artifact = None ->
                \* create_project is called with ProvisioningArtifactId=None
                \* and is refused
                /\ calls' = calls \o <<"search_products", "create_project(no artifact)">>
                /\ provisioning' = call
                /\ Return(Result(500, Body("text", "Failed to create MLOps project",
                                           "boom", {})))
                /\ UNCHANGED <<elapsed>>
          [] OTHER ->
                /\ provisioning' = call
                /\ calls' = calls \o discovery \o <<"create_project">>
                /\ IF c = "accepted"
                   THEN /\ pc' = "poll"
                        /\ elapsed' = 0
                        /\ UNCHANGED response
                   ELSE /\ UNCHANGED elapsed
                        /\ Return(
                            CASE impl # "mlops_project" /\ c = "AccessDenied" ->
                                    Result(403, Body("object",
                                        "Access denied creating MLOps project", "none", {}))
                              [] impl # "mlops_project" /\ c = "already exists" ->
                                    Result(409, Body("object", "already exists", "none",
                                        {"project_name-v2", "project_name-timestamp"}))
                              [] OTHER ->
                                    Result(500, Body("text",
                                        "Failed to create MLOps project", c, {})))
    /\ UNCHANGED <<pipelineVars, bucketVars, impl, event, params, caught, handler, ret, exc,
                   checks, seen, final>>

\* What one describe_project call can come back with: a status that is not
\* terminal (Pending, CreateInProgress), a terminal status, or an exception.
\* A project seen completed stays completed: later checks differ only by raising.
StatusOutcomes(sn) ==
    IF "CreateCompleted" \in sn THEN {"CreateCompleted", "raise"}
    ELSE {"InProgress", "CreateCompleted", "CreateFailed", "raise"}

ProjectFailedResult ==
    Result(500, Body("object", "Project creation failed", "CreateFailed", {}))

\* PollCheck with a sleep that is counted twice
PollCheckCountsTwice ==
    /\ pc = "poll"
    /\ elapsed < max_wait_time(impl)
    /\ \E o \in StatusOutcomes(seen) :
        /\ seen' = seen \cup {o}
        /\ CASE o = "CreateCompleted" ->
                    /\ pc' = "afterloop"
                    /\ UNCHANGED <<elapsed, response>>
             [] o = "CreateFailed" ->
                    /\ Return(ProjectFailedResult)
                    /\ UNCHANGED elapsed
             [] OTHER ->
                    /\ elapsed' = elapsed + 2 * wait_interval
                    /\ pc' = "poll"
                    /\ UNCHANGED response
    /\ checks' = checks + 1
    /\ calls' = Append(calls, "describe_project")
    /\ UNCHANGED <<catalogVars, pipelineVars, bucketVars, impl, event, params, caught, handler, ret, exc, final>>

\* one iteration of `while elapsed_time < max_wait_time`
PollCheck ==
    /\ pc = "poll"
    /\ elapsed < max_wait_time(impl)
    /\ \E o \in StatusOutcomes(seen) :
        /\ seen' = seen \cup {o}
        /\ CASE o = "CreateCompleted" ->
                    \* break
                    /\ pc' = "afterloop"
                    /\ UNCHANGED <<elapsed, response>>
             [] o = "CreateFailed" ->
                    /\ Return(ProjectFailedResult)
                    /\ UNCHANGED elapsed
             [] OTHER ->
                    \* still in progress, or the check raised: sleep, add the interval
                    /\ elapsed' = elapsed + wait_interval
                    /\ pc' = "poll"
                    /\ UNCHANGED response
    /\ checks' = checks + 1
    /\ calls' = Append(calls, "describe_project")
    /\ UNCHANGED <<catalogVars, pipelineVars, bucketVars, impl, event, params, caught, handler, ret, exc, final>>

\* PollTimeout with a deletion of the project issued when the loop gives up
PollTimeoutDeletes ==
    /\ pc = "poll"
    /\ elapsed >= max_wait_time(impl)
    /\ pc' = "afterloop"
    /\ calls' = Append(calls, "delete_project")
    /\ UNCHANGED <<catalogVars, pipelineVars, bucketVars, impl, event, params, caught, handler, response, ret, exc,
                   elapsed, checks, seen, final>>

\* the loop condition fails: nothing is called, the project is left as it is
PollTimeout ==
    /\ pc = "poll"
    /\ elapsed >= max_wait_time(impl)
    /\ pc' = "afterloop"
    /\ UNCHANGED <<catalogVars, pipelineVars, bucketVars, impl, event, params, caught, handler, response, ret, exc, calls,
                   elapsed, checks, seen, final>>

ProjectPendingResult(status) ==
    Result(202, Body("object", "MLOps project creation in progress", status, {}))

ProjectSuccessResult(i) ==
    IF i = "mlops_project"
    THEN Result(201, Body("object", "Successfully created MLOps project", "none", {}))
    ELSE Result(200, Body("object", "Successfully created MLOps project",
                          "CreateCompleted", {}))

\* lambda_function.py, mlops-agent.py: "Check final status", then 202 or 200
FinalCheck ==
    /\ pc = "afterloop"
    /\ impl # "mlops_project"
    /\ \E o \in StatusOutcomes(seen) :
        /\ final' = o
        /\ IF o # "CreateCompleted"
           THEN Return(ProjectPendingResult(IF o = "raise" THEN "Unknown" ELSE o))
           ELSE Return(ProjectSuccessResult(impl))
    /\ checks' = checks + 1
    /\ calls' = Append(calls, "describe_project")
    /\ UNCHANGED <<catalogVars, pipelineVars, bucketVars, impl, event, params, caught, handler, ret, exc, elapsed, seen>>

\* mlops-project.py: the statement after the loop is the 201 return
ReturnAfterLoop ==
    /\ pc = "afterloop"
    /\ impl = "mlops_project"
    /\ Return(ProjectSuccessResult(impl))
    /\ UNCHANGED <<catalogVars, pipelineVars, bucketVars, impl, event, params, caught, handler, ret, exc, calls, elapsed,
                   checks, seen, final>>

create_mlops_project ==
    \/ ProjectMissingParams
    \/ ProjectCreate
    \/ PollCheck
    \/ PollTimeout
    \/ FinalCheck
    \/ ReturnAfterLoop

----------------------------------------------------------------------------
(* The other creation handlers *)

HandlerFrame == UNCHANGED <<catalogVars, pipelineVars, bucketVars, impl, event, params, caught, handler, ret, elapsed,
                            checks, seen, final>>

MissingResult(req) ==
    Result(400, Body("text", "Missing required parameters", "none",
                     Range(MissingOf(req, params))))

\* create_code_connection (configure_code_connection in mlops-agent.py)
create_code_connection ==
    /\ \/ Running("create_code_connection")
       \/ Running("configure_code_connection")
    /\ IF Absent(params, "connection_name")
       THEN /\ Return(MissingResult(<<"connection_name">>))
            /\ UNCHANGED <<calls, exc>>
       ELSE /\ calls' = Append(calls, "create_connection")
            /\ UNCHANGED exc
            /\ \E c \in {"accepted"} \cup ExcTexts :
                Return(
                  CASE c = "accepted" /\ impl = "mlops_project" ->
                        \* this revision builds the envelope itself, with fixed fields
                        Envelope("ProjectManagement", "/configure-code-connection", "POST",
                            Result(201, Body("object",
                                "Successfully created CodeConnections connection",
                                "none", {})))
                    [] c = "accepted" ->
                        Result(200, Body("object",
                            "Successfully created CodeConnections connection", "PENDING", {}))
                    [] c = "already exists" /\ impl = "mlops_project" ->
                        Result(409, Body("text",
                            "CodeConnections connection already exists", "none", {}))
                    [] c = "already exists" ->
                        Result(409, Body("object", "already exists", "none",
                                         {"connection_name-timestamp"}))
                    [] OTHER ->
                        Result(500, Body("text", "Failed to create connection", c, {})))
    /\ HandlerFrame

\* create_feature_store_group: one create_feature_group call, no status check
create_feature_store_group ==
    /\ Running("create_feature_store_group")
    /\ IF Absent(params, "feature_group_name")
       THEN /\ Return(MissingResult(<<"feature_group_name">>))
            /\ UNCHANGED <<calls, exc>>
       ELSE /\ calls' = Append(calls, "create_feature_group")
            /\ UNCHANGED exc
            /\ \E c \in {"accepted"} \cup ExcTexts :
                Return(
                  CASE c = "accepted" ->
                        Result(200, Body("object", "Successfully created Feature Group",
                            IF impl = "mlops_agent" THEN "Creating" ELSE "none", {}))
                    [] c = "already exists" /\ impl = "mlops_agent" ->
                        Result(409, Body("object", "already exists", "none",
                            {"feature_group_name-v2", "feature_group_name-timestamp"}))
                    [] OTHER ->
                        Result(500, Body("text", "Failed to create Feature Group", c, {})))
    /\ HandlerFrame

\* create_model_group
create_model_group ==
    /\ Running("create_model_group")
    /\ IF Absent(params, "model_package_group_name")
       THEN /\ Return(MissingResult(<<"model_package_group_name">>))
            /\ UNCHANGED <<calls, exc>>
       ELSE /\ calls' = Append(calls, "create_model_package_group")
            /\ UNCHANGED exc
            /\ \E c \in {"accepted"} \cup ExcTexts :
                Return(
                  CASE c = "accepted" ->
                        Result(200, Body("object",
                            "Successfully created Model Package Group", "Completed", {}))
                    [] c = "already exists" ->
                        Result(409, Body("object", "already exists", "none",
                            {"model_package_group_name-v2",
                             "model_package_group_name-timestamp"}))
                    [] OTHER ->
                        Result(500, Body("text",
                            "Failed to create Model Package Group", c, {})))
    /\ HandlerFrame

----------------------------------------------------------------------------
(* Bucket provisioner: ensure_s3_bucket_exists (validate_and_setup_s3_bucket *)
(* in mlops-project.py)                                                      *)

\* what a provisioner step leaves alone
ProvisionerFrame ==
    UNCHANGED <<catalogVars, pipelineVars, impl, event, pc, params, caught, handler, response, ret, exc, calls,
                elapsed, checks, seen, final>>

\* one logged call: the operation, the bucket it names, what it came back
\* with, and the number of the invocation that issued it
Call(op, result) ==
    [op |-> op, bucket |-> bucket.uri.bucket, result |-> result,
     run |-> Len(runs) + 1]

\* the provisioner returns r
Finish(r) ==
    /\ bucket' = [bucket EXCEPT !.pc = "done", !.result = r]
    /\ runs' = Append(runs, r)

\* the provisioner goes on at position p
Goto(p) ==
    /\ bucket' = [bucket EXCEPT !.pc = p]
    /\ UNCHANGED runs

\* What head_bucket can come back with.  On a bucket that does not exist the
\* client raises an error with code 404; mlops-project.py catches the class
\* NoSuchBucket, which the error may or may not be an instance of.  "error"
\* is any other failure of the call.
HeadOutcomes(i, w) ==
    {"error"} \cup
    CASE w.owner = "own" -> {"ok"}
      [] w.owner = "other" -> {"forbidden"}
      [] OTHER -> IF i = "mlops_project" THEN {"NoSuchBucket", "ClientError404"}
                  ELSE {"not_found"}

\* AfterHead with a bucket that exists sent to creation
AfterHeadCreatesExisting(i, o) ==
    CASE o \in {"ok", "not_found", "NoSuchBucket"} -> "create"
      [] o = "forbidden" -> "suggest"
      [] OTHER -> "return_error"

\* AfterHead with a forbidden bucket sent to creation
AfterHeadCreatesForbidden(i, o) ==
    CASE o = "ok" -> IF i = "mlops_project" THEN "return_existing" ELSE "write"
      [] o \in {"not_found", "NoSuchBucket", "forbidden"} -> "create"
      [] OTHER -> "return_error"

\* AfterHead with an unclassified probe error taken for an accessible bucket
AfterHeadWritesOnError(i, o) ==
    CASE o = "ok" -> IF i = "mlops_project" THEN "return_existing" ELSE "write"
      [] o \in {"not_found", "NoSuchBucket"} -> "create"
      [] o = "forbidden" -> "suggest"
      [] OTHER -> IF i = "mlops_project" THEN "create" ELSE "write"

\* the classification of the probe's outcome o: where the provisioner goes
AfterHead(i, o) ==
    CASE o = "ok" -> IF i = "mlops_project" THEN "return_existing" ELSE "write"
      [] o \in {"not_found", "NoSuchBucket"} -> "create"
      [] o = "forbidden" -> "suggest"
      [] OTHER -> "return_error"

\* the existence probe
BucketHead ==
    /\ bucket.pc = "head"
    /\ \E o \in HeadOutcomes(impl, world) :
        /\ s3calls' = Append(s3calls, Call("head_bucket", o))
        /\ CASE AfterHead(impl, o) = "return_existing" ->
                    \* returns at once: no write test in this revision
                    Finish(ProvResult(TRUE, "Using existing S3 bucket", << >>,
                                      NameDetails(bucket.uri.bucket)))
             [] AfterHead(impl, o) = "return_error" ->
                    Finish(ProvResult(FALSE, "Bucket access error", << >>, NoDetails))
             [] AfterHead(impl, o) = "suggest" ->
                    /\ bucket' = [bucket EXCEPT !.pc = "suggest",
                                                !.branch = "forbidden"]
                    /\ UNCHANGED runs
             [] OTHER -> Goto(AfterHead(impl, o))
    /\ UNCHANGED world
    /\ ProvisionerFrame

\* create_bucket with the requested name, after a not-found probe.  The call
\* succeeds on a free name; "already exists": the name was taken meanwhile.
\* mlops-project.py tags the new bucket inside the same try block.
BucketCreate ==
    /\ bucket.pc = "create"
    /\ \E o \in {"ok", "tagging_failed", "already exists", "boom"} :
        CASE o = "ok" /\ world.owner = "none" /\ impl # "mlops_project" ->
                /\ world' = [world EXCEPT !.owner = "own"]
                /\ s3calls' = Append(s3calls, Call("create_bucket", "ok"))
                /\ bucket' = [bucket EXCEPT !.pc = "write", !.created = TRUE]
                /\ UNCHANGED runs
          [] o = "ok" /\ world.owner = "none" /\ impl = "mlops_project" ->
                /\ world' = [world EXCEPT !.owner = "own"]
                /\ s3calls' = s3calls \o <<Call("create_bucket", "ok"),
                                           Call("put_bucket_tagging", "ok")>>
                /\ Finish(ProvResult(TRUE, "Successfully created S3 bucket", << >>,
                                     NameDetails(bucket.uri.bucket)))
          [] o = "tagging_failed" /\ world.owner = "none" /\ impl = "mlops_project" ->
                \* the bucket is there, the result says the creation failed
                /\ world' = [world EXCEPT !.owner = "own"]
                /\ s3calls' = s3calls \o <<Call("create_bucket", "ok"),
                                           Call("put_bucket_tagging", "boom")>>
                /\ Finish(ProvResult(FALSE, "Failed to create bucket", << >>, NoDetails))
          [] o = "already exists" ->
                /\ world' = IF world.owner = "none"
                            THEN [world EXCEPT !.owner = "other"] ELSE world
                /\ s3calls' = Append(s3calls, Call("create_bucket", "already exists"))
                /\ bucket' = [bucket EXCEPT !.pc = "suggest", !.branch = "create"]
                /\ UNCHANGED runs
          [] OTHER ->
                /\ UNCHANGED world
                /\ s3calls' = Append(s3calls, Call("create_bucket", "boom"))
                /\ Finish(ProvResult(FALSE,
                            IF impl = "mlops_project" THEN "Failed to create bucket"
                            ELSE "Bucket creation failed", << >>, NoDetails))
    /\ ProvisionerFrame

\* the conflict branches: the account id is asked of STS, the timestamp of
\* the clock, and the alternative names are built from them
BucketSuggest ==
    /\ bucket.pc = "suggest"
    /\ \E acct \in Accounts \cup {"fails"}, ts \in Timestamps :
        LET names == SuggestedNames(impl, bucket.uri.bucket, acct, ts)
        IN
        /\ s3calls' = Append(s3calls, Call("get_caller_identity", acct))
        /\ CASE acct = "fails" /\ impl = "mlops_project" ->
                   Finish(ProvResult(FALSE,
                       IF bucket.branch = "create"
                       THEN "Bucket name already exists globally. Please choose a different name"
                       ELSE "Bucket is owned by another account. Please choose a different name",
                       << >>, NoDetails))
             [] acct = "fails" /\ impl # "mlops_project" ->
                   Finish(ProvResult(FALSE,
                       IF bucket.branch = "create" THEN "Bucket creation failed"
                       ELSE "Bucket access forbidden", << >>, NoDetails))
             [] acct # "fails" /\ impl = "mlops_project" ->
                   \* the names are in the message text, the third element is None
                   Finish(ProvResult(FALSE,
                       IF bucket.branch = "create"
                       THEN "Bucket name already exists globally. Try one of these alternatives"
                       ELSE "Bucket is owned by another account. Try one of these alternatives",
                       names, NoDetails))
             [] OTHER ->
                   Finish(ProvResult(FALSE, "Bucket name conflict", << >>,
                                     DictDetails(names)))
    /\ UNCHANGED world
    /\ ProvisionerFrame

\* lambda_function.py, mlops-agent.py: the folder object (its failure is
\* ignored), then the write test: put_object and delete_object of a test key
BucketWrite ==
    /\ bucket.pc = "write"
    /\ LET written == IF world.writable THEN "ok" ELSE "AccessDenied"
           folder == IF bucket.uri.hasPrefix
                     THEN <<Call("put_object(folder)", written)>> ELSE << >>
           name == bucket.uri.bucket
           failed == ProvResult(FALSE, "S3 write access failed", << >>,
                                NameDetails(name))
       IN  \E d \in {"ok", "delete_failed"} :
            CASE ~world.writable ->
                    /\ s3calls' = s3calls \o folder
                                    \o <<Call("put_object(test)", written)>>
                    /\ Finish(failed)
              [] world.writable /\ d = "delete_failed" ->
                    /\ s3calls' = s3calls \o folder
                                    \o <<Call("put_object(test)", "ok"),
                                         Call("delete_object", "boom")>>
                    /\ Finish(failed)
              [] OTHER ->
                    /\ s3calls' = s3calls \o folder
                                    \o <<Call("put_object(test)", "ok"),
                                         Call("delete_object", "ok")>>
                    /\ Finish(ProvResult(TRUE,
                            IF bucket.created THEN "S3 bucket ready (created)"
                            ELSE "S3 bucket ready (existing)", << >>,
                            NameDetails(name)))
    /\ UNCHANGED world
    /\ ProvisionerFrame

ensure_s3_bucket_exists ==
    \/ BucketHead
    \/ BucketCreate
    \/ BucketSuggest
    \/ BucketWrite

\* the runs list after the provisioner is entered with frame f
Entered(f) == IF f.pc = "done" THEN Append(runs, f.result) ELSE runs

\* the provisioner is invoked again for the same URI
BucketReinvoke ==
    /\ bucket.pc = "done"
    /\ Len(runs) < MaxRuns
    /\ bucket' = StartFrame(impl, bucket.uri)
    /\ runs' = Entered(StartFrame(impl, bucket.uri))
    /\ UNCHANGED <<world, s3calls>>
    /\ ProvisionerFrame

\* the provisioner alone, invoked up to MaxRuns times for one URI
InitBucket ==
    /\ impl \in Impls
    /\ event \in {e \in DispatchEvents :
                    /\ e.apiPath = "/create-mlflow-server"
                    /\ e.actionGroup = "MLOpsActions" /\ e.httpMethod = "POST"
                    /\ e.requestBody = NoBody
                    /\ e.parameters.list = ParamList(AllParams, Required, "wellformed")}
    /\ world \in Worlds
    /\ pipeline = NoPipeline
    /\ approvals = << >>
    /\ catalog = DefaultCatalog
    /\ provisioning = NoProvisioning
    /\ pc = "start"
    /\ params = EmptyMap
    /\ caught = FALSE
    /\ handler = << >>
    /\ response = NoResponse
    /\ ret = NoReturn
    /\ exc = "none"
    /\ calls = << >>
    /\ elapsed = 0
    /\ checks = 0
    /\ seen = {}
    /\ final = "none"
    /\ s3calls = << >>
    /\ \E text \in DOMAIN UriTable :
        /\ bucket = StartFrame(impl, ParseUri(text))
        /\ runs = IF StartFrame(impl, ParseUri(text)).pc = "done"
                  THEN <<StartFrame(impl, ParseUri(text)).result>> ELSE << >>

SpecBucket ==
    InitBucket /\ [][ensure_s3_bucket_exists \/ BucketReinvoke]_vars

----------------------------------------------------------------------------
(* create_mlflow_server (create_mlflow_tracking_server in mlops-project.py) *)

MlflowRequired(i) ==
    IF i = "mlops_project" THEN <<"tracking_server_name">>
    ELSE <<"tracking_server_name", "artifact_store_uri">>

\* the alternative names a failed provisioner result hands to the caller
Alternatives(r) ==
    IF r.details.type = "dict" THEN Range(r.details.suggested_names)
    ELSE Range(r.alternatives)

\* the 400 result built from a failed provisioner result
BucketFailureResult(i, r) ==
    IF i = "mlops_project"
    THEN Result(400, Body("text", "S3 bucket validation failed", r.msg, Alternatives(r)))
    ELSE Result(400, Body("object", "S3 bucket setup failed", r.msg, Alternatives(r)))

\* validation, then the call of the provisioner (mlops-project.py builds a
\* default URI from the account id when none is given)
MlflowStart ==
    /\ \/ Running("create_mlflow_server")
       \/ Running("create_mlflow_tracking_server")
    /\ CASE MissingOf(MlflowRequired(impl), params) # << >> ->
                /\ Return(MissingResult(MlflowRequired(impl)))
                /\ UNCHANGED <<bucket, runs, s3calls>>
         [] MissingOf(MlflowRequired(impl), params) = << >>
                /\ ~Absent(params, "artifact_store_uri") ->
                LET f == StartFrame(impl, ParseUri(params["artifact_store_uri"]))
                IN  /\ bucket' = f
                    /\ runs' = Entered(f)
                    /\ pc' = "bucket"
                    /\ UNCHANGED <<response, s3calls>>
         [] OTHER ->
                /\ \E acct \in Accounts \cup {"fails"} :
                    /\ s3calls' = Append(s3calls,
                            [op |-> "get_caller_identity", bucket |-> << >>,
                             result |-> acct, run |-> Len(runs) + 1])
                    /\ IF acct = "fails"
                       THEN /\ Return(Result(500, Body("text",
                                       "Failed to setup S3 bucket", "boom", {})))
                            /\ UNCHANGED <<bucket, runs>>
                       ELSE /\ bucket' = StartFrame(impl, DefaultUri(acct))
                            /\ runs' = Entered(StartFrame(impl, DefaultUri(acct)))
                            /\ pc' = "bucket"
                            /\ UNCHANGED response
    /\ UNCHANGED <<catalogVars, pipelineVars, impl, event, params, caught, handler, ret, exc, calls, elapsed,
                   checks, seen, final, world>>

\* the create_mlflow_tracking_server call: mlops-project.py makes it without
\* RoleArn when get_sagemaker_execution_role found no role
CreateServerCall(role) ==
    IF role THEN "create_mlflow_tracking_server"
    ELSE "create_mlflow_tracking_server(no role)"

\* after the provisioner: its failure becomes a 400; otherwise the role
\* lookup, then one create call whose acceptance is reported as 202
MlflowAfterBucket ==
    /\ pc = "bucket"
    /\ bucket.pc = "done"
    /\ IF ~bucket.result.ok
       THEN /\ Return(BucketFailureResult(impl, bucket.result))
            /\ UNCHANGED calls
       ELSE \E role \in BOOLEAN, c \in {"accepted"} \cup ExcTexts :
            IF ~role /\ impl # "mlops_project"
            THEN /\ calls' = Append(calls, "get_role")
                 /\ Return(Result(400, Body("object",
                        "Role ARN required for MLflow server creation", "none", {})))
            ELSE /\ calls' = calls \o <<"get_role", CreateServerCall(role)>>
                 /\ Return(
                        CASE c = "accepted" ->
                                Result(202, Body("object",
                                    "Successfully initiated MLflow Tracking Server creation",
                                    "Creating", {}))
                          [] c = "already exists" /\ impl = "mlops_project" ->
                                Result(409, Body("text",
                                    "MLflow Tracking Server already exists", "none", {}))
                          [] c # "accepted" /\ impl = "mlops_project" ->
                                Result(500, Body("text",
                                    "Failed to create MLflow Tracking Server", c, {}))
                          [] OTHER ->
                                Result(500, Body("object",
                                    "Unexpected error in MLflow server creation", c, {})))
    /\ UNCHANGED <<catalogVars, pipelineVars, bucketVars, impl, event, params, caught, handler, ret, exc, elapsed,
                   checks, seen, final>>

create_mlflow_server ==
    \/ MlflowStart
    \/ MlflowAfterBucket
    \/ ensure_s3_bucket_exists

----------------------------------------------------------------------------
(* The remaining handlers *)

\* list_mlops_templates: a fixed catalogue, status 200
list_mlops_templates ==
    /\ Running("list_mlops_templates")
    /\ Return(Result(200, Body("object", "Found MLOps templates", "none", {})))
    /\ UNCHANGED <<calls, exc>>
    /\ HandlerFrame

\* manage_project_lifecycle: describe / delete (refused) / unsupported action
manage_project_lifecycle ==
    /\ Running("manage_project_lifecycle")
    /\ IF MissingOf(<<"project_name", "action">>, params) # << >>
       THEN /\ Return(MissingResult(<<"project_name", "action">>))
            /\ UNCHANGED <<calls, exc>>
       ELSE /\ UNCHANGED exc
            /\ CASE params["action"] = "describe" ->
                    /\ calls' = Append(calls, "describe_project")
                    /\ \E c \in {"ok"} \cup ExcTexts :
                        Return(IF c = "ok"
                               THEN Result(200, Body("object", "project", "none", {}))
                               ELSE Result(500, Body("text",
                                        "Failed to manage project lifecycle", c, {})))
                 [] params["action"] = "delete" ->
                    /\ UNCHANGED calls
                    /\ Return(Result(403, Body("object",
                            "Project deletion is disabled", "none", {})))
                 [] OTHER ->
                    /\ UNCHANGED calls
                    /\ Return(Result(400, Body("text", "Unsupported action",
                                               params["action"], {})))
    /\ HandlerFrame

BuildRequired ==
    <<"project_name", "model_build_code_repository_full_name", "code_connection_arn",
      "feature_group_name", "bucket_name", "mlflow_tracking_server_arn",
      "pipeline_name">>

\* float(params.get('test_score_threshold', 0.75)) fails on a text that is no number
NotANumber(p) == "test_score_threshold" \in DOMAIN p /\ p["test_score_threshold"] = "abc"

\* build_cicd_pipeline: the float() conversion comes before the validation and
\* before the try block; then the missing-parameter check; then the build,
\* which ends with 200 or, on any exception, 500
build_cicd_pipeline ==
    /\ Running("build_cicd_pipeline")
    /\ CASE NotANumber(params) ->
                /\ Raise("could not convert string to float")
                /\ UNCHANGED <<calls, response>>
         [] ~NotANumber(params) /\ MissingOf(BuildRequired, params) # << >> ->
                /\ Return(MissingResult(BuildRequired))
                /\ UNCHANGED <<calls, exc>>
         [] OTHER ->
                /\ calls' = Append(calls, "describe_project")
                /\ UNCHANGED exc
                /\ \E c \in {"ok"} \cup ExcTexts :
                    Return(IF c = "ok"
                           THEN Result(200, Body("object",
                                    "CI/CD pipeline built", "none", {}))
                           ELSE Result(500, Body("object",
                                    "Failed to build CI/CD pipeline", c, {})))
    /\ HandlerFrame

\* ApprovalStatusFor with the status of the approve branch in both branches
ApprovalStatusAlwaysApproved(action) == "Approved"

\* the ModelApprovalStatus sent in the branch of an action (approve / reject)
ApprovalStatusFor(action) == IF action = "approve" THEN "Approved" ELSE "Rejected"

\* the update_model_package call made for an action
UpdateCall(action) ==
    IF ApprovalStatusFor(action) = "Approved" THEN "update_model_package(Approved)"
    ELSE "update_model_package(Rejected)"

\* manage_model_approval: the ARN is supplied, or looked up from the group
\* name (list_model_packages); then approve / reject / unsupported action
manage_model_approval ==
    /\ Running("manage_model_approval")
    /\ UNCHANGED exc
    /\ LET given == ~Absent(params, "model_package_arn")
           lookup == ~given /\ ~Absent(params, "model_package_group_name")
           action == IF "action" \in DOMAIN params THEN params["action"] ELSE "approve"
           looked == IF lookup THEN <<"list_model_packages">> ELSE << >>
           missing == Result(400, Body("object",
                        "Missing required parameter: model_package_arn", "none",
                        {"model_package_arn"}))
       IN  \E r \in (IF lookup THEN {"found", "empty", "error"} ELSE {"none"}),
              c \in {"ok"} \cup ExcTexts :
            CASE ~given /\ r = "none" ->
                    /\ calls' = calls
                    /\ Return(missing)
              [] r = "empty" ->
                    /\ calls' = calls \o looked
                    /\ Return(IF impl = "lambda_function"
                              THEN Result(404, Body("object",
                                      "No models found in model package group", "none", {}))
                              ELSE missing)
              [] r = "error" ->
                    /\ calls' = calls \o looked
                    /\ Return(IF impl = "lambda_function"
                              THEN Result(500, Body("object",
                                      "Failed to lookup model ARN", "boom", {}))
                              ELSE missing)
              [] OTHER ->
                    IF action \in {"approve", "reject"}
                    THEN /\ calls' = calls \o looked \o <<UpdateCall(action)>>
                         /\ Return(IF c = "ok"
                                   THEN Result(200, Body("object", "model package updated",
                                            IF action = "approve" THEN "Approved"
                                            ELSE "Rejected", {}))
                                   ELSE Result(500, Body("object",
                                            "Failed to manage model approval", c, {})))
                    ELSE /\ calls' = calls \o looked
                         /\ Return(Result(400, Body("text", "Unsupported action",
                                                    action, {})))
    /\ HandlerFrame

\* one put_approval_result call: the method that made it, the names and the
\* token it sent, whether the service accepted it
Submission(method, a, ok) ==
    [method |-> method, stage |-> a.stage, action |-> a.action, token |-> a.token,
     ok |-> ok]

\* Method 1 acts on an action of category Approval whose latestExecution is
\* InProgress and holds a token
Pending(a) == a.category = "Approval" /\ a.status = "InProgress" /\ a.token # ""

\* Method 3 collects the token of every action of category Approval that has one
HasToken(a) == a.category = "Approval" /\ a.token # ""

\* the loop over stageStates / actionStates from entry k on: one call for each
\* pending action, ok[k] telling whether the call for entry k was accepted
RECURSIVE FromState(_, _, _, _)
FromState(method, pl, ok, k) ==
    IF k > Len(pl) THEN << >>
    ELSE (IF Pending(pl[k]) THEN <<Submission(method, pl[k], ok[k])>> ELSE << >>)
            \o FromState(method, pl, ok, k + 1)

\* Method 3: the loop over common_combinations from entry k on, each guess
\* sent with the token available_tokens holds for it; the first accepted call
\* ends it
RECURSIVE FromGuesses(_, _, _)
FromGuesses(pl, ok, k) ==
    IF k > Len(GuessList) THEN << >>
    ELSE LET hits == SelectSeq(pl, LAMBDA a :
                        HasToken(a) /\ <<a.stage, a.action>> = GuessList[k])
         IN  IF hits = << >> THEN FromGuesses(pl, ok, k + 1)
             ELSE <<Submission("brute_force", hits[Len(hits)], ok)>>
                    \o (IF ok THEN << >> ELSE FromGuesses(pl, ok, k + 1))

\* Method 3 as written, from the first guess on
BruteForce(pl, ok) == FromGuesses(pl, ok, 1)

Accepted(subs) == SelectSeq(subs, LAMBDA x : x.ok)

\* the methods a revision has
Methods(i) == IF i = "mlops_agent" THEN 3 ELSE 1

\* what the put_approval_result calls of Method 1 can come back with, entry by
\* entry (an entry with no call has no outcome to choose)
PutOutcomes(pl) ==
    {f \in [DOMAIN pl -> BOOLEAN] : \A k \in DOMAIN pl : ~Pending(pl[k]) => f[k]}

\* what list_pipeline_executions can come back with, where it is called
ExecutionOutcomes(i) == IF Methods(i) >= 2 THEN {"found", "none", "raise"} ELSE {"none"}

\* what the put_approval_result calls of Methods 2 and 3 can come back with
LaterOutcomes(i) == IF Methods(i) >= 2 THEN BOOLEAN ELSE {TRUE}

StagingApproved == Result(200, Body("object", "Approved", "none", {}))
StagingNothing == Result(404, Body("object", "All approval methods failed", "none", {}))
StagingError(c) == Result(500, Body("object", "Failed to manage staging approval", c, {}))
StagingList == Result(200, Body("object", "Pipeline status", "none", {}))

\* manage_staging_approval: the project lookup, then for 'approve' the
\* methods in turn, each tried only when the ones before approved nothing,
\* for any other action the list of the pending approvals.
\*   d: describe_project; g: get_pipeline_state (every call of the run);
\*   ok1, ok2, ok3: put_approval_result in methods 1, 2, 3;
\*   x: list_pipeline_executions (an execution in progress, none, an error)
manage_staging_approval ==
    /\ Running("manage_staging_approval")
    /\ UNCHANGED <<exc, pipeline>>
    /\ IF Absent(params, "project_name")
       THEN /\ Return(Result(400, Body("object",
                    "Missing required parameter: project_name", "none",
                    {"project_name"})))
            /\ UNCHANGED <<calls, approvals>>
       ELSE \E d \in {"ok", "boom"}, g \in BOOLEAN, ok1 \in PutOutcomes(pipeline),
               x \in ExecutionOutcomes(impl), ok2 \in LaterOutcomes(impl),
               ok3 \in LaterOutcomes(impl) :
            LET action == IF "action" \in DOMAIN params THEN params["action"] ELSE "list"
                m1 == IF g THEN FromState("pipeline_state", pipeline, ok1, 1) ELSE << >>
                try2 == Methods(impl) >= 2 /\ Accepted(m1) = << >>
                m2 == IF try2 /\ x = "found" /\ g
                      THEN FromState("action_executions", pipeline,
                                     [k \in DOMAIN pipeline |-> ok2], 1)
                      ELSE << >>
                try3 == Methods(impl) >= 3 /\ Accepted(m1 \o m2) = << >>
                m3 == IF try3 /\ g THEN BruteForce(pipeline, ok3) ELSE << >>
                subs == m1 \o m2 \o m3
            IN  CASE d # "ok" ->
                        /\ calls' = Append(calls, "describe_project")
                        /\ UNCHANGED approvals
                        /\ Return(StagingError(d))
                  [] d = "ok" /\ action # "approve" ->
                        /\ calls' = calls \o <<"describe_project", "get_pipeline_state">>
                        /\ UNCHANGED approvals
                        /\ Return(IF g THEN StagingList ELSE StagingError("boom"))
                  [] OTHER ->
                        /\ calls' = calls \o <<"describe_project", "get_pipeline_state">>
                                \o [k \in DOMAIN subs |-> "put_approval_result"]
                        /\ approvals' = approvals \o subs
                        /\ Return(CASE try3 /\ ~g -> StagingError("boom")
                                    [] Accepted(subs) # << >> -> StagingApproved
                                    [] OTHER -> StagingNothing)
    /\ UNCHANGED <<catalogVars, bucketVars, impl, event, params, caught, handler, ret,
                   elapsed, checks, seen, final>>

----------------------------------------------------------------------------
(* lambda_handler, after the dispatch chain *)

\* `except Exception as e:` of the dispatch chain
DispatcherCatch ==
    /\ pc = "caught"
    /\ response' = DispatcherErrorResult(impl, exc)
    /\ pc' = "respond"
    /\ UNCHANGED <<catalogVars, pipelineVars, bucketVars, impl, event, params, caught, handler, ret, exc, calls, elapsed,
                   checks, seen, final>>

\* What lambda_handler returns for the result r it holds.  lambda_function.py
\* and mlops-agent.py wrap r in the envelope; in mlops-project.py every branch
\* of the chain is `return <handler result>`.
Returned(i, ev, r) ==
    IF i = "mlops_project"
    THEN [kind |-> "bare", value |-> r]
    ELSE [kind |-> "envelope",
          value |-> Envelope(ev.actionGroup, ev.apiPath, ev.httpMethod, r)]

Respond ==
    /\ pc = "respond"
    /\ ret' = Returned(impl, event, response)
    /\ pc' = "done"
    /\ UNCHANGED <<catalogVars, pipelineVars, bucketVars, impl, event, params, caught, handler, response, exc, calls,
                   elapsed, checks, seen, final>>

lambda_handler ==
    \/ Extract
    \/ ExtractEscapes
    \/ RouteUnknown
    \/ RouteHandler
    \/ RouteUndefined
    \/ DispatcherCatch
    \/ Respond

Handlers ==
    \/ create_mlops_project
    \/ create_code_connection
    \/ create_feature_store_group
    \/ create_model_group
    \/ create_mlflow_server
    \/ list_mlops_templates
    \/ manage_project_lifecycle
    \/ build_cicd_pipeline
    \/ manage_model_approval
    \/ manage_staging_approval

Next == lambda_handler \/ Handlers

Spec == Init /\ [][Next]_vars

----------------------------------------------------------------------------
(* What the three sources of an event supply, read off the event itself *)

\* the values the array form gives for name n (well-formed elements only)
ArrayValues(ev, n) ==
    IF ev.parameters.shape # "list" THEN {}
    ELSE {ev.parameters.list[k].value : k \in
            {j \in DOMAIN ev.parameters.list :
                WellFormed(ev.parameters.list[j]) /\ ev.parameters.list[j].name = n}}

\* the values the nested body form gives for name n: the well-formed
\* elements of a properties list, or the entries of a properties mapping
\* that hold a 'value'
BodyValues(ev, n) ==
    CASE ev.requestBody.shape = "props_list" ->
            {ev.requestBody.list[k].value : k \in
                {j \in DOMAIN ev.requestBody.list :
                    WellFormed(ev.requestBody.list[j]) /\ ev.requestBody.list[j].name = n}}
      [] ev.requestBody.shape = "props_map" ->
            IF n \in DOMAIN ev.requestBody.map
               /\ ev.requestBody.map[n].isDict /\ ev.requestBody.map[n].hasValue
            THEN {ev.requestBody.map[n].value} ELSE {}
      [] OTHER -> {}

QueryNames(ev) ==
    IF ev.queryStringParameters.shape = "map"
    THEN DOMAIN ev.queryStringParameters.map ELSE {}

ArrayNames(ev) == {n \in ExtractNames : ArrayValues(ev, n) # {}}
BodyNames(ev) == {n \in ExtractNames : BodyValues(ev, n) # {}}

\* the extractor has returned its map
ExtractionReturned == pc = "route"

\* the extractor has run, whichever way it ended
ExtractionOver == pc # "start"

----------------------------------------------------------------------------
(* Claims on the Parameter Extractor, checked under SpecExtract *)

\* C6: a name that the query form shares with a higher-precedence source (the
\* array form, else the body form) keeps the value of the higher-precedence
\* source in the extracted map; the query form never overwrites it.
C6_QueryNeverOverwrites ==
    ExtractionReturned =>
        \A n \in QueryNames(event) :
            /\ (ArrayValues(event, n) # {}) =>
                    n \in DOMAIN params /\ params[n] \in ArrayValues(event, n)
            /\ (ArrayValues(event, n) = {} /\ BodyValues(event, n) # {}) =>
                    n \in DOMAIN params /\ params[n] \in BodyValues(event, n)

\* C7: a name present in both the array form and the body form (and not in
\* the query form) has the array-form value in the extracted map.
C7_ArrayWinsOverBody ==
    ExtractionReturned =>
        \A n \in (ArrayNames(event) \cap BodyNames(event)) \ QueryNames(event) :
            n \in DOMAIN params /\ params[n] \in ArrayValues(event, n)

\* the three shapes of section 6 are all in the event
AllThreeShapes(ev) ==
    /\ ev.parameters.shape = "list"
    /\ ev.requestBody.shape = "props_list"
    /\ ev.queryStringParameters.shape = "map"

\* C8: with all three shapes present, the extractor returns a map whose key
\* set is the union of the names the three sources supply.
C8_KeySetIsUnion ==
    (ExtractionOver /\ AllThreeShapes(event)) =>
        /\ ExtractionReturned
        /\ DOMAIN params =
            ArrayNames(event) \cup BodyNames(event) \cup QueryNames(event)

\* C9: the extractor never raises, whatever the shape of the event, and the
\* entries taken from the array form survive a failure in a later source.
C9_ExtractionNeverRaises ==
    ExtractionOver =>
        /\ ExtractionReturned
        /\ ret.kind # "raised"
        /\ \A n \in ArrayNames(event) : n \in DOMAIN params

----------------------------------------------------------------------------
(* Claims on the dispatcher and the creation handlers, checked under Spec *)

\* lambda_handler has returned what it made of a handler result
Answered == pc = "done" /\ response.shape # "none"

\* C1: whatever the handler result, lambda_handler returns the fixed envelope:
\* messageVersion "1.0", the event's actionGroup, apiPath and httpMethod
\* echoed, httpStatusCode the handler's statusCode (200 when omitted) and body
\* the JSON text of the handler body; no path returns a bare handler result.
C1_AlwaysEnvelope ==
    Answered =>
        /\ ret.kind = "envelope"
        /\ response.shape = "result"
        /\ ret.value.shape = "envelope"
        /\ ret.value.messageVersion = "1.0"
        /\ ret.value.response.actionGroup = event.actionGroup
        /\ ret.value.response.apiPath = event.apiPath
        /\ ret.value.response.httpMethod = event.httpMethod
        /\ ret.value.response.httpStatusCode = StatusOf(response)
        /\ ret.value.response.responseBody.application_json.body
                = JsonDumps(response.body)

\* C2: no exception leaves lambda_handler: a failure in the extraction, in
\* the handler or in building the response ends in a returned result.
C2_NoExceptionEscapes == ret.kind # "raised"

\* the texts of the exceptions raised in a run
RaisedTexts ==
    ExcTexts \cup {"NameError", "could not convert string to float",
                   "template not found"}

\* C3: a status-500 answer to a failed handler carries a generic message only:
\* its body does not depend on the text of the exception, which never shows
\* in it.
C3_OpaqueServerError ==
    (Answered /\ response.shape = "result" /\ response.statusCode = 500) =>
        response.body.detail \notin RaisedTexts

Terminal == {"CreateCompleted", "CreateFailed"}

\* the polling loop ran to max_wait_time and no status check, in the loop or
\* after it, came back with a terminal state
TimedOut ==
    /\ handler = <<"create_mlops_project">>
    /\ elapsed >= max_wait_time(impl)
    /\ seen \cap Terminal = {}
    /\ final \notin Terminal

\* C4: when the poller times out without having seen a terminal state,
\* create_mlops_project returns the accepted-pending result (202), never a
\* success result (200 / 201).
C4_TimeoutIsPending ==
    (Answered /\ TimedOut) =>
        /\ response.shape = "result"
        /\ response.statusCode = 202
        /\ response.statusCode \notin {200, 201}

CreationHandlers ==
    {"create_mlops_project", "create_feature_store_group", "create_mlflow_server",
     "create_mlflow_tracking_server"}

\* a status check came back with status s
Observed(s) == s \in seen \/ final = s

\* C5: a creation handler (project, feature group, tracking server) reports
\* success only when creation was observed complete and failure of the
\* creation only when it was observed failed; a resource still being created
\* is never reported with a success status.
C5_ThreeWayOutcome ==
    (Answered /\ response.shape = "result" /\ handler # << >>
        /\ handler[1] \in CreationHandlers) =>
        /\ (response.statusCode \in {200, 201}) => Observed("CreateCompleted")
        /\ (response = ProjectFailedResult) => Observed("CreateFailed")

\* C10: an apiPath that matches no branch invokes no handler and is answered
\* with status 400 and a body listing exactly the paths the dispatcher routes.
C10_UnknownPathListsRoutes ==
    (Answered /\ event.apiPath \notin RoutedPaths(impl)) =>
        /\ handler = << >>
        /\ response.shape = "result"
        /\ response.statusCode = 400
        /\ response.body.items = RoutedPaths(impl)

\* C11: a routed apiPath has exactly one handler invoked, once: the one named
\* in its branch, which exists; a path that is no exact match of a routed
\* path (trailing slash, other case) is treated as unknown and runs no handler.
C11_ExactlyOneHandler ==
    Answered =>
        IF event.apiPath \in RoutedPaths(impl)
        THEN /\ handler = <<HandlerFor(impl, event.apiPath)>>
             /\ HandlerFor(impl, event.apiPath) \in DefinedHandlers(impl)
        ELSE /\ handler = << >>
             /\ response = UnknownPathResult(impl, event.apiPath)

----------------------------------------------------------------------------
(* Claims on the bucket provisioner, checked under SpecBucket *)

\* the calls of invocation r, by their place in the log
CallsOf(r) == {k \in DOMAIN s3calls : s3calls[k].run = r}

CreateCalls == {k \in DOMAIN s3calls : s3calls[k].op = "create_bucket"}

\* the probe of invocation r found the bucket
Probed(r) ==
    \E k \in CallsOf(r) : s3calls[k].op = "head_bucket" /\ s3calls[k].result = "ok"

\* the bucket exists, is writable, and every invocation so far found it so:
\* each probed it with success and no cleanup of a test object failed
ExistingAccessibleWritable ==
    /\ world.owner = "own" /\ world.writable
    /\ \A r \in DOMAIN runs : Probed(r)
    /\ \A k \in DOMAIN s3calls :
            s3calls[k].op \in {"head_bucket", "delete_object"}
                => s3calls[k].result = "ok"

\* C12: the provisioner is idempotent on an existing, accessible, writable
\* bucket: every invocation returns the same ready result for an existing
\* bucket, with the requested name, and create_bucket is never called.
C12_IdempotentOnExisting ==
    (Len(runs) >= 2 /\ ExistingAccessibleWritable) =>
        /\ \A j, k \in DOMAIN runs : runs[j] = runs[k]
        /\ \A j \in DOMAIN runs :
            /\ runs[j].ok
            /\ runs[j].msg \in {"S3 bucket ready (existing)", "Using existing S3 bucket"}
            /\ runs[j].details = NameDetails(bucket.uri.bucket)
        /\ CreateCalls = {}

C12_Witness ==
    /\ Len(runs) = 2
    /\ ExistingAccessibleWritable
    /\ runs[2].ok
    /\ bucket.pc = "done"

\* C13: in one invocation create_bucket is called at most once, only after
\* the probe of that invocation was classified not-found, and only with the
\* requested name: no retry with a suggested name; a ready result carries the
\* requested name.
C13_SingleCreateRequestedName ==
    /\ \A j, k \in CreateCalls : s3calls[j].run = s3calls[k].run => j = k
    /\ \A k \in CreateCalls :
        /\ s3calls[k].bucket = bucket.uri.bucket
        /\ \E j \in CallsOf(s3calls[k].run) :
            /\ j < k
            /\ s3calls[j].op = "head_bucket"
            /\ s3calls[j].result \in {"not_found", "NoSuchBucket"}
        /\ \A j \in CallsOf(s3calls[k].run) :
            s3calls[j].op = "get_caller_identity" => k < j
    /\ \A j \in DOMAIN runs :
        runs[j].ok => runs[j].details = NameDetails(bucket.uri.bucket)

C13_Witness ==
    /\ bucket.pc = "done"
    /\ bucket.branch = "create"
    /\ \E k \in CreateCalls : s3calls[k].result = "already exists"
    /\ \E k \in DOMAIN s3calls : s3calls[k].op = "get_caller_identity"

\* the alternative names of a provisioner result, wherever it carries them
SuggestionsOf(r) ==
    IF r.details.type = "dict" THEN r.details.suggested_names ELSE r.alternatives

\* C14: a probe that fails as forbidden ends in the blocked-by-conflict
\* result, which carries as structured data exactly three suggested names,
\* none equal to the requested name.
C14_ForbiddenThreeSuggestions ==
    (bucket.pc = "done" /\ bucket.branch = "forbidden") =>
        /\ ~bucket.result.ok
        /\ bucket.result.details.type = "dict"
        /\ Len(bucket.result.details.suggested_names) = 3
        /\ \A k \in DOMAIN bucket.result.details.suggested_names :
                bucket.result.details.suggested_names[k] # bucket.uri.bucket

\* name p followed by further segments
Extends(n, p) == Len(p) < Len(n) /\ SubSeq(n, 1, Len(p)) = p

\* C15: the suggested names of one invocation are a function of the requested
\* name, the account id and the timestamp; each is derived from the requested
\* name; and they are pairwise distinct whenever the account id differs from
\* the timestamp string.
C15_SuggestionsDerivedDistinct ==
    LET S == SuggestionsOf(bucket.result)
    IN  (bucket.pc = "done" /\ S # << >>) =>
            /\ \E a \in Accounts, t \in Timestamps :
                    S = SuggestedNames(impl, bucket.uri.bucket, a, t)
            /\ \A k \in DOMAIN S : Extends(S[k], bucket.uri.bucket)
            /\ \A a \in Accounts, t \in Timestamps :
                    (a # t /\ S = SuggestedNames(impl, bucket.uri.bucket, a, t)) =>
                        \A j, k \in DOMAIN S : S[j] = S[k] => j = k

\* the write test of invocation r succeeded
WriteTested(r) ==
    \E k \in CallsOf(r) :
        s3calls[k].op = "put_object(test)" /\ s3calls[k].result = "ok"

\* the write test of invocation r was made and failed (the put or the cleanup)
WriteTestFailed(r) ==
    \E k \in CallsOf(r) :
        \/ s3calls[k].op = "put_object(test)" /\ s3calls[k].result # "ok"
        \/ s3calls[k].op = "delete_object" /\ s3calls[k].result # "ok"

\* C16: a ready result is preceded by a successful write test in the same
\* invocation; a failed write test gives the write-access-failed result, which
\* is no success, carries the bucket name and differs from the generic failure
\* (no details) and from the conflict result (a dict).
C16_ReadyOnlyAfterWriteTest ==
    \A r \in DOMAIN runs :
        /\ runs[r].ok => WriteTested(r)
        /\ WriteTestFailed(r) =>
            /\ ~runs[r].ok
            /\ runs[r].msg = "S3 write access failed"
            /\ runs[r].details = NameDetails(bucket.uri.bucket)

----------------------------------------------------------------------------
(* Claims on the validation of parameters, checked under Spec *)

\* the parameters handler h of revision i requires
RequiredOf(i, h) ==
    CASE h = "create_mlops_project" -> ProjectRequired(i)
      [] h = "build_cicd_pipeline" -> BuildRequired
      [] h \in {"create_mlflow_server", "create_mlflow_tracking_server"} ->
            MlflowRequired(i)
      [] h = "manage_project_lifecycle" -> <<"project_name", "action">>
      [] OTHER -> << >>

\* a handler the revision defines was called and has been answered
HandlerAnswered ==
    /\ Answered
    /\ handler # << >>
    /\ handler[1] \in DefinedHandlers(impl)

\* the caller sent, for a field the handler requires, a value that has not the
\* shape of the field
SentMalformed ==
    \E n \in Range(RequiredOf(impl, handler[1])) :
        /\ n \in DOMAIN params
        /\ params[n] = MalformedValue(n)
        /\ MalformedValue(n) # WellFormedValue(n)

\* no call left the function: none to the services, none to S3
NoExternalCall == calls = << >> /\ s3calls = << >>

\* C17: a handler given a malformed value for one of its fields (a name with
\* uppercase letters, an ARN without the 12-digit account, a repository
\* identifier without a slash) answers with status 400 and makes no external
\* call.
C17_MalformedValueRejected ==
    (HandlerAnswered /\ SentMalformed) =>
        /\ response.shape = "result"
        /\ response.statusCode = 400
        /\ NoExternalCall

\* C18: a handler with required parameters, called with one of them absent or
\* empty, answers with status 400 and a body naming every missing required
\* parameter, whatever the optional parameters hold, and makes no external
\* call.
C18_MissingRequiredListed ==
    (HandlerAnswered /\ MissingOf(RequiredOf(impl, handler[1]), params) # << >>) =>
        /\ response.shape = "result"
        /\ response.statusCode = 400
        /\ response.body.items = Range(MissingOf(RequiredOf(impl, handler[1]), params))
        /\ NoExternalCall

----------------------------------------------------------------------------
(* Claims on the conflict responses, checked under Spec *)

\* the provisioner ended on a name collision: the probe was forbidden (the
\* bucket is another account's) or the creation found the name taken
BucketConflict ==
    /\ bucket.pc = "done"
    /\ bucket.branch \in {"create", "forbidden"}
    /\ ~bucket.result.ok

\* the answer reports a name collision: status 409 from a handler, or the
\* status 400 a handler makes of the provisioner's collision
ConflictResponse ==
    /\ HandlerAnswered
    /\ response.shape = "result"
    /\ \/ response.statusCode = 409
       \/ /\ response.statusCode = 400
          /\ BucketConflict
          /\ response = BucketFailureResult(impl, bucket.result)

\* C19: every conflict response, the 409 of a creation handler and the 400
\* made of a bucket collision, lists at least one alternative name in its body.
C19_ConflictCarriesSuggestion ==
    ConflictResponse => response.body.items # {}

----------------------------------------------------------------------------
(* Claims on what create_mlops_project leaves behind, checked under Spec *)

\* the calls that would cancel or remove the project being created
CancelCalls ==
    {"delete_project", "stop_project", "terminate_provisioned_product",
     "delete_provisioned_product"}

\* create_project was accepted: the handler went on to poll the status
CreateAccepted ==
    /\ handler = <<"create_mlops_project">>
    /\ \E k \in DOMAIN calls : calls[k] = "create_project"
    /\ pc \in {"poll", "afterloop"} \/ checks > 0

\* C20: once create_project was accepted, create_mlops_project makes no call
\* that cancels or deletes the project, on the way to any of its exits
\* (timeout, failure seen, success, failing status checks): after the create
\* call it only reads the status.
C20_NoCancelAfterAccept ==
    CreateAccepted =>
        \A k \in DOMAIN calls :
            /\ calls[k] \notin CancelCalls
            /\ (\E j \in 1..(k - 1) : calls[j] = "create_project") =>
                    calls[k] = "describe_project"

\* the handler gave up waiting and has answered, the project still in progress
C20_Witness ==
    /\ Answered
    /\ CreateAccepted
    /\ TimedOut
    /\ calls[Len(calls)] = "describe_project"

----------------------------------------------------------------------------
(* Claims on the polling loop of create_mlops_project, checked under Spec *)

\* C21: in the polling loop elapsed never decreases, every change of it adds
\* exactly one interval, and it never exceeds the maximum wait by more than
\* one interval.
C21_ElapsedSteps ==
    /\ [][elapsed' = elapsed \/ elapsed' = elapsed + wait_interval]_vars
    /\ [](elapsed <= max_wait_time(impl) + wait_interval)

\* the loop has slept its way to the maximum wait
C21_Witness ==
    /\ handler = <<"create_mlops_project">>
    /\ pc = "poll"
    /\ elapsed = max_wait_time(impl)
    /\ checks * wait_interval = elapsed

----------------------------------------------------------------------------
(* Claims on manage_model_approval, checked under Spec *)

\* manage_model_approval was called with a model_package_arn and has answered
ApprovalAnswered ==
    /\ HandlerAnswered
    /\ handler = <<"manage_model_approval">>
    /\ ~Absent(params, "model_package_arn")
    /\ response.shape = "result"

\* the action the handler acts on: the parameter, 'approve' when it is not sent
ApprovalAction == IF "action" \in DOMAIN params THEN params["action"] ELSE "approve"

ApprovedResult(status) ==
    Result(200, Body("object", "model package updated", status, {}))

\* C22 as stated: with a model_package_arn, 'approve' makes exactly one update
\* with status Approved and is answered 200 with approval_status Approved,
\* 'reject' the same with Rejected, and any other action is answered 400
\* with no update call.
C22_ApprovalAsStated ==
    ApprovalAnswered =>
        CASE ApprovalAction = "approve" ->
                /\ calls = <<"update_model_package(Approved)">>
                /\ response = ApprovedResult("Approved")
          [] ApprovalAction = "reject" ->
                /\ calls = <<"update_model_package(Rejected)">>
                /\ response = ApprovedResult("Rejected")
          [] OTHER ->
                /\ calls = << >>
                /\ response.statusCode = 400

\* the answer to an update_model_package call that raised
UpdateFailed ==
    /\ response.statusCode = 500
    /\ response.body.msg = "Failed to manage model approval"

\* C22 (amended): with a model_package_arn, 'approve' makes exactly one update
\* with status Approved and is answered 200 with approval_status Approved
\* when the update returns, 500 when it raises; 'reject' the same with
\* Rejected; any other action is answered 400 with no update call.
C22_ApprovalOneUpdate ==
    ApprovalAnswered =>
        CASE ApprovalAction = "approve" ->
                /\ calls = <<"update_model_package(Approved)">>
                /\ response = ApprovedResult("Approved") \/ UpdateFailed
          [] ApprovalAction = "reject" ->
                /\ calls = <<"update_model_package(Rejected)">>
                /\ response = ApprovedResult("Rejected") \/ UpdateFailed
          [] OTHER ->
                /\ calls = << >>
                /\ response.statusCode = 400

\* a rejection was sent and confirmed
C22_Witness ==
    /\ ApprovalAnswered
    /\ ApprovalAction = "reject"
    /\ calls = <<"update_model_package(Rejected)">>
    /\ response = ApprovedResult("Rejected")

----------------------------------------------------------------------------
(* Claims on the outcome of create_mlops_project, checked under Spec *)

\* create_mlops_project polled the project and has answered
ProjectAnswered ==
    /\ Answered
    /\ handler = <<"create_mlops_project">>
    /\ checks > 0
    /\ response.shape = "result"

\* C23: once a status check in the polling loop came back CreateCompleted,
\* create_mlops_project answers with its success result; no later status
\* check, and no error of one, makes the answer accepted-pending or failure.
C23_CompletedIsTerminal ==
    (ProjectAnswered /\ "CreateCompleted" \in seen) =>
        /\ response = ProjectSuccessResult(impl)
        /\ response.statusCode \notin {202, 500}

\* C24: a run of create_mlops_project in which a status check, in the loop or
\* after it, came back CreateFailed ends with the failure result (500), never
\* with accepted-pending (202) or success.
C24_FailedIsFailure ==
    (ProjectAnswered /\ Observed("CreateFailed")) =>
        /\ response = ProjectFailedResult
        /\ response.statusCode \notin {200, 201, 202}

\* every status check made so far raised
AllChecksRaised ==
    /\ handler = <<"create_mlops_project">>
    /\ checks > 0
    /\ seen = {"raise"}
    /\ final \in {"none", "raise"}

\* C25: a status check that raises in the polling loop does not end
\* create_mlops_project: it costs exactly one interval and the loop goes on
\* while elapsed is below the maximum wait; when every status check raises,
\* the loop ends by timeout and the answer is accepted-pending (202), not
\* failure (500) and no other status.
C25_RaisingChecksArePending ==
    AllChecksRaised =>
        /\ elapsed < max_wait_time(impl) =>
                (pc = "poll" /\ elapsed = checks * wait_interval)
        /\ Answered =>
                /\ elapsed >= max_wait_time(impl)
                /\ response.shape = "result"
                /\ response.statusCode = 202

----------------------------------------------------------------------------
(* Claims on the calls of the bucket provisioner, checked under SpecBucket *)

\* the calls that change the bucket or its content
MutatingOps ==
    {"create_bucket", "put_bucket_tagging", "put_object(folder)",
     "put_object(test)", "delete_object"}

\* the outcomes of the probe that are neither success nor not-found
BlockedProbes == {"forbidden", "error", "ClientError404"}

\* the probe of invocation r failed as forbidden or with an unclassified error
ProbeBlocked(r) ==
    \E k \in CallsOf(r) :
        s3calls[k].op = "head_bucket" /\ s3calls[k].result \in BlockedProbes

\* C26: an invocation whose probe fails as forbidden (403) or with an
\* unclassified error makes no mutating call (create_bucket, put_object,
\* delete_object), at any point of it, and its result is no success.
C26_BlockedProbeMutatesNothing ==
    \A r \in 1..(Len(runs) + 1) :
        ProbeBlocked(r) =>
            /\ \A k \in CallsOf(r) : s3calls[k].op \notin MutatingOps
            /\ r \in DOMAIN runs => ~runs[r].ok

\* an invocation with a forbidden probe and one with an unclassified error
\* have both returned
C26_Witness ==
    /\ Len(runs) = 2
    /\ bucket.pc = "done"
    /\ \E k \in CallsOf(1) : s3calls[k].op = "head_bucket" /\ s3calls[k].result = "forbidden"
    /\ \E k \in CallsOf(2) :
            s3calls[k].op = "head_bucket" /\ s3calls[k].result \in {"error", "ClientError404"}

\* C27: when an invocation has returned, with success or failure, no test
\* object it wrote is left in the bucket: each successful test write of the
\* invocation is followed, in the same invocation, by a successful delete.
C27_NoTestObjectLeft ==
    \A r \in DOMAIN runs :
        \A k \in CallsOf(r) :
            (s3calls[k].op = "put_object(test)" /\ s3calls[k].result = "ok") =>
                \E j \in CallsOf(r) :
                    /\ j > k
                    /\ s3calls[j].op = "delete_object"
                    /\ s3calls[j].result = "ok"

----------------------------------------------------------------------------
(* Claims on manage_staging_approval, checked under Spec *)

\* the live pipeline state shows the action a call names as an Approval in
\* progress with a token, and the call carries that action's own names and token
LiveChecked(x) ==
    \E k \in DOMAIN pipeline :
        /\ pipeline[k].category = "Approval"
        /\ pipeline[k].status = "InProgress"
        /\ pipeline[k].token # ""
        /\ x.stage = pipeline[k].stage
        /\ x.action = pipeline[k].action
        /\ x.token = pipeline[k].token

\* C28: manage_staging_approval submits an approval only for action
\* 'approve', and only for an action of category Approval that the live
\* pipeline state shows InProgress with a non-empty token, with that action's
\* own stage name, action name and token; no approval is submitted for a
\* stage/action pair of the fixed list without that check of the live state.
C28_ApprovalsOnlyForLivePending ==
    \A k \in DOMAIN approvals :
        /\ handler = <<"manage_staging_approval">>
        /\ "action" \in DOMAIN params /\ params["action"] = "approve"
        /\ LiveChecked(approvals[k])

----------------------------------------------------------------------------
(* Claims on create_mlflow_server, checked under Spec *)

MlflowHandlers == {"create_mlflow_server", "create_mlflow_tracking_server"}

\* the tracking-server creation calls made, by their place in the log
CreateServerCalls ==
    {k \in DOMAIN calls :
        calls[k] \in {"create_mlflow_tracking_server",
                      "create_mlflow_tracking_server(no role)"}}

\* the provisioner has returned a result that is not ready
ProvisionerNotReady == bucket.pc = "done" /\ ~bucket.result.ok

\* the role lookup came back without a role
NoRoleFound ==
    /\ calls # << >>
    /\ \/ calls[Len(calls)] = "get_role"
       \/ calls[Len(calls)] = "create_mlflow_tracking_server(no role)"

\* C29: create_mlflow_server makes the create-tracking-server call at most
\* once, and only after the bucket provisioner returned ready and with a role
\* ARN known; when the provisioner returned blocked or failed, or no role was
\* found, the answer is status 400 and no creation call was made.
C29_CreateServerOnlyWhenReady ==
    (handler # << >> /\ handler[1] \in MlflowHandlers
        /\ handler[1] \in DefinedHandlers(impl)) =>
        /\ Cardinality(CreateServerCalls) <= 1
        /\ \A k \in CreateServerCalls :
                /\ bucket.pc = "done" /\ bucket.result.ok
                /\ calls[k] = "create_mlflow_tracking_server"
        /\ (Answered /\ (ProvisionerNotReady \/ NoRoleFound)) =>
                /\ response.shape = "result"
                /\ response.statusCode = 400
                /\ CreateServerCalls = {}

\* the create_project calls made, by their place in the log
CreateProjectCalls ==
    {k \in DOMAIN calls :
        calls[k] \in {"create_project", "create_project(no artifact)"}}

\* the ids in the create_project call are those of a product of the catalog
\* that template discovery accepts by name, and of its active artifact
ResolvedFromCatalog ==
    \E k \in DOMAIN catalog :
        /\ catalog[k].name \in {"exact", "fuzzy"}
        /\ catalog[k].artifacts = "active"
        /\ provisioning.product = catalog[k].id
        /\ provisioning.artifact = ArtifactOf(catalog[k].id)

\* template discovery ended with a product and no active artifact of it
ProductWithoutArtifact ==
    /\ provisioning.product # None
    /\ provisioning.artifact = None

\* C30: create_mlops_project never issues a create_project call unless both
\* the product id and the provisioning artifact id were resolved by template
\* discovery, the artifact being one of the resolved product; when discovery
\* finds a product with no active provisioning artifact, no project is
\* created and the result is a not-found error.
C30_CreateOnlyFromDiscovery ==
    /\ CreateProjectCalls # {} =>
            /\ provisioning.called
            /\ provisioning.product # None
            /\ provisioning.artifact # None
            /\ ResolvedFromCatalog
    /\ (Answered /\ handler = <<"create_mlops_project">>
            /\ ProductWithoutArtifact) =>
            /\ CreateProjectCalls = {}
            /\ response.shape = "result"
            /\ response.statusCode = 404

====
